---- MODULE Spec2Model ----
(***************************************************************************)
(* Model of research/maskgan/data/ptb_loader.py: the PTB reader            *)
(* (_read_words), the vocabulary builder (build_vocab), the encoder        *)
(* (_file_to_word_ids) and the batching generator (ptb_iterator).          *)
(*                                                                         *)
(* A text is a sequence of character codes (10 = newline, 32 = space,      *)
(* 60 = "<", 62 = ">", 97.. = "a"..); a token is a non-empty sequence of   *)
(* character codes, so that Python's string order and the gluing of the    *)
(* replacement text onto the next line are part of the model.              *)
(***************************************************************************)
EXTENDS Integers, Sequences, FiniteSets

VARIABLES
  EOS_INDEX,   \* module global, line 29
  PAD_INDEX,   \* module global, line 30
  file,        \* content of the file most recently read
  data,        \* tokens returned by the most recent _read_words
  word_to_id,  \* vocabulary most recently returned by build_vocab (<<>>: none yet)
  raw_data,    \* id stream most recently returned by _file_to_word_ids
  gen,         \* frame of the generator made by the last ptb_iterator call
  batches,     \* batches the consumer received from that generator, in order
  err,         \* exception raised by the most recent operation
  op           \* the most recent operation

vars == <<EOS_INDEX, PAD_INDEX, file, data, word_to_id, raw_data, gen, batches, err, op>>

----------------------------------------------------------------------------
(* Bounds *)

MaxTextLen == 4
MaxEncLen == 3
MaxId == 2
MaxStream == 3
MaxBatch == 3
MaxSeqLen == 2

----------------------------------------------------------------------------
(* Characters and marker tokens *)

NEWLINE == {10}
WHITESPACE == {9, 10, 11, 12, 13, 32}

EOS_TOKEN == <<60, 101, 111, 115, 62>>
PAD_TOKEN == <<60, 112, 97, 100, 62>>

\* a replacement text with the end-of-sequence marker alone, " <eos>"
ReplacementEosOnly == <<32>> \o EOS_TOKEN

\* a replacement text that ends with a space, " <eos> <pad> "
ReplacementSpaced == <<32>> \o EOS_TOKEN \o <<32>> \o PAD_TOKEN \o <<32>>

\* the replacement text " <eos> <pad>" of line 35
REPLACEMENT == <<32>> \o EOS_TOKEN \o <<32>> \o PAD_TOKEN

\* str.replace("\n", " <eos> <pad>")
RECURSIVE Replace(_)
Replace(s) ==
  IF s = <<>> THEN <<>>
  ELSE IF Head(s) \in NEWLINE THEN REPLACEMENT \o Replace(Tail(s))
  ELSE <<Head(s)>> \o Replace(Tail(s))

\* str.split(): cut on runs of whitespace, no empty tokens
RECURSIVE SplitFrom(_, _)
SplitFrom(s, cur) ==
  IF s = <<>> THEN (IF cur = <<>> THEN <<>> ELSE <<cur>>)
  ELSE IF Head(s) \in WHITESPACE
       THEN (IF cur = <<>> THEN <<>> ELSE <<cur>>) \o SplitFrom(Tail(s), <<>>)
       ELSE SplitFrom(Tail(s), Append(cur, Head(s)))

Split(s) == SplitFrom(s, <<>>)

\* _read_words(filename), on the file's content
ReadWords(text) == Split(Replace(text))

----------------------------------------------------------------------------
(* build_vocab *)

\* Python's str order: by code point, a proper prefix first
RECURSIVE StrLess(_, _)
StrLess(s, t) ==
  IF t = <<>> THEN FALSE
  ELSE IF s = <<>> THEN TRUE
  ELSE IF Head(s) # Head(t) THEN Head(s) < Head(t)
  ELSE StrLess(Tail(s), Tail(t))

\* collections.Counter(data).items(): <<word, count>> in first-occurrence order
RECURSIVE CountIn(_, _)
CountIn(w, ws) ==
  IF ws = <<>> THEN 0
  ELSE (IF Head(ws) = w THEN 1 ELSE 0) + CountIn(w, Tail(ws))

RECURSIVE CounterItems(_, _)
CounterItems(ws, seen) ==
  IF ws = <<>> THEN <<>>
  ELSE IF Head(ws) \in seen THEN CounterItems(Tail(ws), seen)
  ELSE <<<<Head(ws), 1 + CountIn(Head(ws), Tail(ws))>>>>
         \o CounterItems(Tail(ws), seen \cup {Head(ws)})

\* a sort key without the minus sign: (count, word)
KeyLessAscending(x, y) ==
  \/ x[2] < y[2]
  \/ x[2] = y[2] /\ StrLess(x[1], y[1])

\* the sort key of line 43, (-count, word), compared as Python compares tuples
KeyLess(x, y) ==
  \/ -x[2] < -y[2]
  \/ -x[2] = -y[2] /\ StrLess(x[1], y[1])

RECURSIVE InsertSorted(_, _)
InsertSorted(x, sorted) ==
  IF sorted = <<>> THEN <<x>>
  ELSE IF KeyLess(x, Head(sorted)) THEN <<x>> \o sorted
  ELSE <<Head(sorted)>> \o InsertSorted(x, Tail(sorted))

RECURSIVE Sorted(_)
Sorted(items) ==
  IF items = <<>> THEN <<>>
  ELSE InsertSorted(Head(items), Sorted(Tail(items)))

CountPairs(ws) == Sorted(CounterItems(ws, {}))

\* dict(zip(words, range(len(words))))
WordToId(ws) ==
  LET pairs == CountPairs(ws)
  IN [w \in {pairs[k][1] : k \in 1..Len(pairs)} |->
        (CHOOSE k \in 1..Len(pairs) : pairs[k][1] = w) - 1]

NoError == [type |-> "None", key |-> <<>>]
ValueError == [type |-> "ValueError", key |-> <<>>]
KeyError(k) == [type |-> "KeyError", key |-> k]
NotImplementedError == [type |-> "NotImplementedError", key |-> <<>>]

\* the exception build_vocab raises on these tokens, NoError when it returns
BuildVocabError(ws) ==
  IF ws = <<>> THEN ValueError
  ELSE IF EOS_TOKEN \notin DOMAIN WordToId(ws) THEN KeyError(EOS_TOKEN)
  ELSE IF PAD_TOKEN \notin DOMAIN WordToId(ws) THEN KeyError(PAD_TOKEN)
  ELSE NoError

\* marker ids that are both the end-of-sequence marker's
MarkerIdsBothEos(dict) == <<dict[EOS_TOKEN], dict[EOS_TOKEN]>>

\* the values lines 51-52 give <<EOS_INDEX, PAD_INDEX>>
MarkerIds(dict) == <<dict[EOS_TOKEN], dict[PAD_TOKEN]>>

NoGen ==
  [state |-> "none", raw_data |-> <<>>, batch_size |-> 1, sequence_length |-> 1,
   epoch_size_override |-> <<>>, sentences |-> <<>>, data |-> <<>>,
   epoch_size |-> 0, i |-> 0]

BuildVocab(text) ==
  LET ws == ReadWords(text)
      e == BuildVocabError(ws)
  IN /\ file' = text
     /\ data' = ws
     /\ op' = "build_vocab"
     /\ err' = e
     /\ IF e = NoError
        THEN /\ word_to_id' = WordToId(ws)
             /\ EOS_INDEX' = MarkerIds(WordToId(ws))[1]
             /\ PAD_INDEX' = MarkerIds(WordToId(ws))[2]
        ELSE UNCHANGED <<word_to_id, EOS_INDEX, PAD_INDEX>>
     /\ UNCHANGED <<raw_data, gen, batches>>

----------------------------------------------------------------------------
(* _file_to_word_ids *)

\* an encoder that maps an absent token to id 0 instead of dropping it
RECURSIVE EncodeUnknown(_, _)
EncodeUnknown(ws, dict) ==
  IF ws = <<>> THEN <<>>
  ELSE IF Head(ws) \in DOMAIN dict
       THEN <<dict[Head(ws)]>> \o EncodeUnknown(Tail(ws), dict)
       ELSE <<0>> \o EncodeUnknown(Tail(ws), dict)

RECURSIVE Encode(_, _)
Encode(ws, dict) ==
  IF ws = <<>> THEN <<>>
  ELSE IF Head(ws) \in DOMAIN dict THEN <<dict[Head(ws)]>> \o Encode(Tail(ws), dict)
  ELSE Encode(Tail(ws), dict)

FileToWordIds(text) ==
  /\ file' = text
  /\ data' = ReadWords(text)
  /\ raw_data' = Encode(ReadWords(text), word_to_id)
  /\ op' = "_file_to_word_ids"
  /\ err' = NoError
  /\ UNCHANGED <<EOS_INDEX, PAD_INDEX, word_to_id, gen, batches>>

----------------------------------------------------------------------------
(* ptb_iterator *)

\* a test that never finds the override set
TruthyNever(v) == FALSE

\* bool(epoch_size_override): <<>> is None, <<n>> the integer n
Truthy(v) == v # <<>> /\ v[1] # 0

\* a split that cuts before each end-of-sequence id instead of after it
RECURSIVE SplitBefore(_, _, _)
SplitBefore(raw, eos, cur) ==
  IF raw = <<>> THEN <<cur>>
  ELSE IF Head(raw) = eos
       THEN <<cur>> \o SplitBefore(Tail(raw), eos, <<Head(raw)>>)
       ELSE SplitBefore(Tail(raw), eos, Append(cur, Head(raw)))

\* np.split(raw, np.where(raw == eos)[0] + 1)
RECURSIVE SplitAfter(_, _, _)
SplitAfter(raw, eos, cur) ==
  IF raw = <<>> THEN <<cur>>
  ELSE IF Head(raw) = eos
       THEN <<Append(cur, Head(raw))>> \o SplitAfter(Tail(raw), eos, <<>>)
       ELSE SplitAfter(Tail(raw), eos, Append(cur, Head(raw)))

Sentences(raw, eos) == SplitAfter(raw, eos, <<>>)

Min(a, b) == IF a <= b THEN a ELSE b

\* a row that keeps sequence_length ids of its sentence, one too few
PadRowShort(sentence, sequence_length, pad) ==
  LET sent == SubSeq(sentence, 1, Min(Len(sentence), sequence_length))
  IN [c \in 1..(sequence_length + 1) |-> IF c <= Len(sent) THEN sent[c] ELSE pad]

\* one row of data after lines 113-116
PadRow(sentence, sequence_length, pad) ==
  LET sent == SubSeq(sentence, 1, Min(Len(sentence), sequence_length + 1))
  IN [c \in 1..(sequence_length + 1) |-> IF c <= Len(sent) THEN sent[c] ELSE pad]

PadMatrix(sentences, sequence_length, pad) ==
  [r \in 1..Len(sentences) |-> PadRow(sentences[r], sequence_length, pad)]

\* an epoch size rounded up, which counts the last partial block
EpochSizeCeil(sentence_len, batch_size) == (sentence_len + batch_size - 1) \div batch_size

\* line 121
EpochSize(sentence_len, batch_size) == sentence_len \div batch_size

\* the rows data[i*batch_size:(i+1)*batch_size] of lines 124-125; a slice stops
\* at the end of the array
BlockRows(matrix, i, batch_size) ==
  SubSeq(matrix, i * batch_size + 1, Min((i + 1) * batch_size, Len(matrix)))

\* x = block[:, :-1]
InputOf(block) == [r \in 1..Len(block) |-> SubSeq(block[r], 1, Len(block[r]) - 1)]
\* a target that is not shifted: the same columns as the input
TargetOfUnshifted(block) ==
  [r \in 1..Len(block) |-> SubSeq(block[r], 1, Len(block[r]) - 1)]
\* y = block[:, 1:]
TargetOf(block) == [r \in 1..Len(block) |-> SubSeq(block[r], 2, Len(block[r]))]
\* w = np.ones_like(x)
OnesLike(x) == [r \in 1..Len(x) |-> [c \in 1..Len(x[r]) |-> 1]]

Batch(matrix, i, batch_size) ==
  LET block == BlockRows(matrix, i, batch_size)
  IN [x |-> InputOf(block), y |-> TargetOf(block), w |-> OnesLike(InputOf(block))]

\* the call: a generator function returns its generator without running its body
PtbIterator(raw, batch_size, sequence_length, epoch_size_override) ==
  /\ gen' = [NoGen EXCEPT !.state = "created", !.raw_data = raw,
                          !.batch_size = batch_size,
                          !.sequence_length = sequence_length,
                          !.epoch_size_override = epoch_size_override]
  /\ batches' = <<>>
  /\ op' = "ptb_iterator"
  /\ err' = NoError
  /\ UNCHANGED <<EOS_INDEX, PAD_INDEX, file, data, word_to_id, raw_data>>

\* next() on a fresh generator: lines 107-123, up to the first yield
GenStart ==
  /\ gen.state = "created"
  /\ LET sentences == Sentences(gen.raw_data, EOS_INDEX)
         matrix == PadMatrix(sentences, gen.sequence_length, PAD_INDEX)
         epoch_size == EpochSize(Len(sentences), gen.batch_size)
         frame == [gen EXCEPT !.sentences = sentences, !.data = matrix]
     IN IF Truthy(gen.epoch_size_override)
        THEN /\ gen' = [frame EXCEPT !.state = "closed"]
             /\ err' = NotImplementedError
             /\ UNCHANGED batches
        ELSE IF epoch_size = 0
        THEN /\ gen' = [frame EXCEPT !.state = "closed", !.epoch_size = epoch_size]
             /\ err' = NoError
             /\ UNCHANGED batches
        ELSE /\ gen' = [frame EXCEPT !.state = "suspended", !.epoch_size = epoch_size]
             /\ err' = NoError
             /\ batches' = Append(batches, Batch(matrix, 0, gen.batch_size))
  /\ op' = "next"
  /\ UNCHANGED <<EOS_INDEX, PAD_INDEX, file, data, word_to_id, raw_data>>

\* next() on a generator suspended at the yield of line 132
GenResume ==
  /\ gen.state = "suspended"
  /\ IF gen.i + 1 < gen.epoch_size
     THEN /\ gen' = [gen EXCEPT !.i = gen.i + 1]
          /\ batches' = Append(batches, Batch(gen.data, gen.i + 1, gen.batch_size))
     ELSE /\ gen' = [gen EXCEPT !.state = "closed"]
          /\ UNCHANGED batches
  /\ err' = NoError
  /\ op' = "next"
  /\ UNCHANGED <<EOS_INDEX, PAD_INDEX, file, data, word_to_id, raw_data>>

----------------------------------------------------------------------------
(* Inputs *)

BoundedSeqs(S, n) == UNION {[1..k -> S] : k \in 0..n}

\* newline, space, "a", "b"
Alphabet == {10, 32, 97, 98}

TextBBA == <<98, 32, 98, 32, 97, 10>>                 \* "b b a\n"
TextPtb == <<32, 97, 32, 98, 10, 32, 99, 10>>         \* " a b\n c\n"
TextGlued == <<97, 32, 98, 10, 99, 10>>               \* "a b\nc\n"
TextNoMarker == <<97, 32, 98>>                        \* "a b"
TextEosOnly == <<97, 32>> \o EOS_TOKEN                \* "a <eos>"
TextEmpty == <<>>

ExampleTexts == {TextBBA, TextPtb, TextGlued, TextEosOnly}

Corpora == BoundedSeqs(Alphabet, MaxTextLen) \cup ExampleTexts
EncCorpora == BoundedSeqs(Alphabet, MaxEncLen) \cup ExampleTexts
TextBB == <<98, 32, 98, 10>>                           \* "b b\n"
Files == {TextNoMarker, TextPtb, TextBB}

\* <<EOS_INDEX, PAD_INDEX>>: <<0, 0>> at import, afterwards two distinct ids
MarkerPairs ==
  {<<0, 0>>} \cup {p \in (0..MaxId) \X (0..MaxId) : p[1] # p[2]}

\* seven sentences under EOS_INDEX = 0
StreamSeven == <<0, 0, 0, 0, 0, 0>>
Streams == BoundedSeqs(0..MaxId, MaxStream) \cup {StreamSeven}

Overrides == {<<>>, <<0>>, <<1>>}

----------------------------------------------------------------------------
(* The program: any sequence of calls on the files *)

Init ==
  /\ EOS_INDEX = 0
  /\ PAD_INDEX = 0
  /\ file = <<>>
  /\ data = <<>>
  /\ word_to_id = <<>>
  /\ raw_data = <<>>
  /\ gen = NoGen
  /\ batches = <<>>
  /\ err = NoError
  /\ op = "import"

CallBuildVocab == \E text \in Files : BuildVocab(text)

CallFileToWordIds ==
  /\ word_to_id # <<>>
  /\ \E text \in Files : FileToWordIds(text)

CallPtbIterator ==
  \E batch_size \in 1..MaxBatch, sequence_length \in 1..MaxSeqLen, o \in Overrides :
    PtbIterator(raw_data, batch_size, sequence_length, o)

Next ==
  \/ CallBuildVocab
  \/ CallFileToWordIds
  \/ CallPtbIterator
  \/ GenStart
  \/ GenResume

Spec == Init /\ [][Next]_vars

----------------------------------------------------------------------------
(* build_vocab then _file_to_word_ids, on every bounded text *)

\* the module after an earlier build_vocab call, or right after import
InitVocab ==
  /\ \E prior \in {TextEmpty, TextPtb, TextBBA} :
       IF BuildVocabError(ReadWords(prior)) = NoError
       THEN /\ word_to_id = WordToId(ReadWords(prior))
            /\ EOS_INDEX = MarkerIds(word_to_id)[1]
            /\ PAD_INDEX = MarkerIds(word_to_id)[2]
       ELSE /\ word_to_id = <<>>
            /\ EOS_INDEX = 0
            /\ PAD_INDEX = 0
  /\ file = <<>>
  /\ data = <<>>
  /\ raw_data = <<>>
  /\ gen = NoGen
  /\ batches = <<>>
  /\ err = NoError
  /\ op = "import"

VocabBuild ==
  /\ op = "import"
  /\ \E text \in Corpora : BuildVocab(text)

VocabEncode ==
  /\ op = "build_vocab"
  /\ word_to_id # <<>>
  /\ \E text \in EncCorpora : FileToWordIds(text)

NextVocab == VocabBuild \/ VocabEncode

SpecVocab == InitVocab /\ [][NextVocab]_vars

----------------------------------------------------------------------------
(* ptb_iterator on every bounded id stream *)

InitIter ==
  /\ \E p \in MarkerPairs : EOS_INDEX = p[1] /\ PAD_INDEX = p[2]
  /\ raw_data \in Streams
  /\ file = <<>>
  /\ data = <<>>
  /\ word_to_id = <<>>
  /\ gen = NoGen
  /\ batches = <<>>
  /\ err = NoError
  /\ op = "import"

NextIter ==
  \/ CallPtbIterator
  \/ GenStart
  \/ GenResume

SpecIter == InitIter /\ [][NextIter]_vars

----------------------------------------------------------------------------
(* The pipeline on one file: build_vocab, _file_to_word_ids, ptb_iterator *)

PipeBuild ==
  /\ op = "import"
  /\ \E text \in Corpora : BuildVocab(text)

PipeEncode ==
  /\ op = "build_vocab"
  /\ err = NoError
  /\ FileToWordIds(file)

PipeIterator ==
  /\ op = "_file_to_word_ids"
  /\ CallPtbIterator

NextPipe ==
  \/ PipeBuild
  \/ PipeEncode
  \/ PipeIterator
  \/ GenStart
  \/ GenResume

SpecPipe == Init /\ [][NextPipe]_vars

----------------------------------------------------------------------------
(* Properties of build_vocab and _file_to_word_ids, under SpecVocab *)

Tokens(ws) == {ws[i] : i \in DOMAIN ws}
Occurrences(w, ws) == Cardinality({i \in DOMAIN ws : ws[i] = w})

\* s comes before t in code-point order
LexSmaller(s, t) ==
  \E k \in 1..Len(t) :
    /\ k <= Len(s) + 1
    /\ \A j \in 1..(k - 1) : s[j] = t[j]
    /\ (k = Len(s) + 1 \/ s[k] < t[k])

Precedes(s, t, ws) ==
  \/ Occurrences(s, ws) > Occurrences(t, ws)
  \/ Occurrences(s, ws) = Occurrences(t, ws) /\ LexSmaller(s, t)

BuiltOk == op = "build_vocab" /\ err = NoError

\* C1: a vocabulary build_vocab returns maps the distinct tokens one-to-one onto
\* 0..N-1, and id(s) < id(t) exactly when s is more frequent than t, or as
\* frequent and smaller in string order.
C1_VocabOrder ==
  BuiltOk =>
    LET N == Cardinality(Tokens(data))
    IN /\ DOMAIN word_to_id = Tokens(data)
       /\ {word_to_id[w] : w \in DOMAIN word_to_id} = 0..(N - 1)
       /\ \A s \in Tokens(data), t \in Tokens(data) :
            s # t => (word_to_id[s] < word_to_id[t] <=> Precedes(s, t, data))

\* a build where a more frequent token precedes a token that is smaller in
\* string order, and where two equally frequent tokens are ordered by string
C1_Witness ==
  /\ BuiltOk
  /\ \E s \in Tokens(data), t \in Tokens(data) :
       /\ Occurrences(s, data) > Occurrences(t, data)
       /\ LexSmaller(t, s)
       /\ word_to_id[s] = 0
  /\ \E s \in Tokens(data), t \in Tokens(data) :
       /\ s # t
       /\ Occurrences(s, data) = Occurrences(t, data)
       /\ word_to_id[s] < word_to_id[t]

Encoded == op = "_file_to_word_ids"
InVocabulary(i) == data[i] \in DOMAIN word_to_id
OutOfVocabulary == {i \in DOMAIN data : ~InVocabulary(i)}
\* the number of in-vocabulary tokens among data[1..i]
Rank(i) == Cardinality({j \in 1..i : InVocabulary(j)})
TokenOfId(n) == CHOOSE w \in DOMAIN word_to_id : word_to_id[w] = n

\* C5: _file_to_word_ids returns the ids of the in-vocabulary tokens in their
\* order, drops every other token, raises nothing, and with no token out of
\* vocabulary the ids decode back to the tokens.
C5_EncodeDropsOov ==
  Encoded =>
    /\ err = NoError
    /\ Len(raw_data) = Len(data) - Cardinality(OutOfVocabulary)
    /\ \A i \in DOMAIN data :
         InVocabulary(i) => raw_data[Rank(i)] = word_to_id[data[i]]
    /\ (OutOfVocabulary # {} => Len(raw_data) < Len(data))
    /\ (OutOfVocabulary = {} =>
          [k \in 1..Len(raw_data) |-> TokenOfId(raw_data[k])] = data)

\* an encoding that dropped a token standing before a kept one
C5_Witness ==
  /\ Encoded
  /\ \E i \in DOMAIN data, j \in DOMAIN data :
       i < j /\ ~InVocabulary(i) /\ InVocabulary(j)

LineBreaks(text) == {i \in DOMAIN text : text[i] = 10}

\* C6 as stated: every non-empty corpus gives a vocabulary holding both markers;
\* an empty or marker-less one fails with a missing-marker error.
C6_Original ==
  [][op' = "build_vocab" =>
       /\ (file' # <<>> =>
             /\ err' = NoError
             /\ {EOS_TOKEN, PAD_TOKEN} \subseteq DOMAIN word_to_id')
       /\ (file' = <<>> \/ ~({EOS_TOKEN, PAD_TOKEN} \subseteq Tokens(data')) =>
             /\ err'.type = "KeyError"
             /\ err'.key \in {EOS_TOKEN, PAD_TOKEN}
             /\ UNCHANGED <<word_to_id, EOS_INDEX, PAD_INDEX>>)]_vars

\* C6, amended: build_vocab returns exactly when both markers are among the tokens
\* (so whenever the corpus ends with a line break), and the vocabulary holds both; with
\* no token it raises ValueError, otherwise KeyError for the first missing
\* marker; a failure leaves the vocabulary and the marker ids as they were.
C6_BuildVocabFailure ==
  [][op' = "build_vocab" =>
       /\ (err' = NoError <=> {EOS_TOKEN, PAD_TOKEN} \subseteq Tokens(data'))
       /\ (err' = NoError => {EOS_TOKEN, PAD_TOKEN} \subseteq DOMAIN word_to_id')
       /\ (Len(file') \in LineBreaks(file') => err' = NoError)
       /\ (data' = <<>> => err' = ValueError)
       /\ ((data' # <<>> /\ EOS_TOKEN \notin Tokens(data'))
             => err' = KeyError(EOS_TOKEN))
       /\ ((EOS_TOKEN \in Tokens(data') /\ PAD_TOKEN \notin Tokens(data'))
             => err' = KeyError(PAD_TOKEN))
       /\ (err' # NoError => UNCHANGED <<word_to_id, EOS_INDEX, PAD_INDEX>>)]_vars

\* a failed build_vocab after which an earlier vocabulary and its ids are in force
C6_Witness ==
  /\ op = "build_vocab"
  /\ err = KeyError(PAD_TOKEN)
  /\ word_to_id # <<>>
  /\ PAD_INDEX # 0

----------------------------------------------------------------------------
(* Properties of ptb_iterator, under SpecIter *)

\* the generator has run lines 107-116
Ran == gen.state \in {"suspended", "closed"}
\* the override is an integer other than 0
OverrideSet == gen.epoch_size_override \notin {<<>>, <<0>>}
\* the number of sentences: one more than the occurrences of EOS_INDEX
NumSentences ==
  1 + Cardinality({i \in DOMAIN gen.raw_data : gen.raw_data[i] = EOS_INDEX})
Columns(row, from, to) == [c \in 1..(to - from + 1) |-> row[from + c - 1]]

C3_BatchShape ==
  \A k \in 1..Len(batches) :
    LET b == batches[k]
    IN /\ Len(b.x) = gen.batch_size
       /\ Len(b.y) = gen.batch_size
       /\ Len(b.w) = gen.batch_size
       /\ \A r \in 1..gen.batch_size :
            /\ Len(b.x[r]) = gen.sequence_length
            /\ Len(b.y[r]) = gen.sequence_length
            /\ Len(b.w[r]) = gen.sequence_length
            /\ \A t \in 1..gen.sequence_length :
                 b.x[r][t] = gen.data[(k - 1) * gen.batch_size + r][t]
            /\ \A t \in 1..(gen.sequence_length - 1) : b.y[r][t] = b.x[r][t + 1]
            /\ \A t \in 1..gen.sequence_length : b.w[r][t] = 1
            /\ b.y[r][gen.sequence_length]
                 = gen.data[(k - 1) * gen.batch_size + r][gen.sequence_length + 1]

\* a batch of two columns or more with a row that is padding from its first
\* input column on
C3_Witness ==
  /\ gen.sequence_length >= 2
  /\ \E k \in 1..Len(batches) :
       \E r \in 1..gen.batch_size :
         /\ gen.sentences[(k - 1) * gen.batch_size + r] = <<>>
         /\ batches[k].x[r][1] = PAD_INDEX
         /\ batches[k].w[r][1] = 1

\* C4 as stated: with an override set the call itself fails.
C4_Original ==
  (op = "ptb_iterator" /\ OverrideSet) => err = NotImplementedError

\* C4, amended: with an override set the call returns a generator and raises
\* nothing; the first next() on it raises NotImplementedError; no batch is ever
\* emitted.
C4_OverrideRaisesOnFirstNext ==
  OverrideSet =>
    /\ batches = <<>>
    /\ gen.state \in {"created", "closed"}
    /\ (gen.state = "created" => op = "ptb_iterator" /\ err = NoError)
    /\ (gen.state = "closed" => op = "next" /\ err = NotImplementedError)

C4_Witness ==
  /\ OverrideSet
  /\ gen.state = "closed"
  /\ err = NotImplementedError
  /\ Len(gen.data) >= gen.batch_size

\* C7 as stated: a row whose sentence has sequence_length+1 ids holds no pad id.
C7_Original ==
  Ran =>
    \A r \in 1..Len(gen.data) :
      Len(gen.sentences[r]) = gen.sequence_length + 1 =>
        \A c \in 1..(gen.sequence_length + 1) : gen.data[r][c] # PAD_INDEX

\* C7, amended: a row whose sentence has sequence_length+1 ids is that sentence,
\* entry for entry; it holds the pad id only where the sentence does.
C7_FullRowIsSentence ==
  Ran =>
    \A r \in 1..Len(gen.data) :
      Len(gen.sentences[r]) = gen.sequence_length + 1 =>
        gen.data[r] = gen.sentences[r]

\* a full-length sentence that ends with an end-of-sequence id equal to the pad id
C7_Witness ==
  /\ Ran
  /\ \E r \in 1..Len(gen.data) :
       /\ Len(gen.sentences[r]) = gen.sequence_length + 1
       /\ gen.data[r][gen.sequence_length + 1] = PAD_INDEX
       /\ gen.data[r][1] # PAD_INDEX

RECURSIVE Concat(_)
Concat(ss) == IF ss = <<>> THEN <<>> ELSE Head(ss) \o Concat(Tail(ss))

\* C9: the sentences are the stream cut after every end-of-sequence id (the last
\* fragment included, the whole stream when the id does not occur); the matrix
\* has one row of sequence_length+1 entries per sentence: the sentence's first ids,
\* then the pad id; a longer sentence is cut short and nothing is raised.
C9_SplitAndPad ==
  Ran =>
    LET S == gen.sentences
        n == Len(gen.sentences)
        width == gen.sequence_length + 1
    IN /\ n = NumSentences
       /\ Concat(S) = gen.raw_data
       /\ \A r \in 1..(n - 1) :
            /\ S[r] # <<>>
            /\ S[r][Len(S[r])] = EOS_INDEX
            /\ \A j \in 1..(Len(S[r]) - 1) : S[r][j] # EOS_INDEX
       /\ \A j \in 1..Len(S[n]) : S[n][j] # EOS_INDEX
       /\ Len(gen.data) = n
       /\ \A r \in 1..n :
            /\ DOMAIN gen.data[r] = 1..width
            /\ \A c \in 1..width :
                 gen.data[r][c] = IF c <= Len(S[r]) THEN S[r][c] ELSE PAD_INDEX
       /\ (~OverrideSet => err = NoError)

\* a matrix with a row cut short and a row that is padded
C9_Witness ==
  /\ Ran
  /\ \E r \in 1..Len(gen.sentences) : Len(gen.sentences[r]) > gen.sequence_length + 1
  /\ \E r \in 1..Len(gen.sentences) :
       /\ Len(gen.sentences[r]) < gen.sequence_length + 1
       /\ gen.data[r][gen.sequence_length + 1] = PAD_INDEX

----------------------------------------------------------------------------
(* The pipeline on one file, under SpecPipe *)

\* the text cut at its line breaks: one piece per line break, and the rest
RECURSIVE PiecesFrom(_, _)
PiecesFrom(text, cur) ==
  IF text = <<>> THEN <<cur>>
  ELSE IF Head(text) = 10 THEN <<cur>> \o PiecesFrom(Tail(text), <<>>)
  ELSE PiecesFrom(Tail(text), Append(cur, Head(text)))

Pieces(text) == PiecesFrom(text, <<>>)

IdOf(w) == IF w \in DOMAIN word_to_id THEN word_to_id[w] ELSE -1
Ids(ws) == [k \in 1..Len(ws) |-> IdOf(ws[k])]
TokensOfIds(ids) == [k \in 1..Len(ids) |-> TokenOfId(ids[k])]

\* C8 as stated: one sentence per line, the line's token ids and then the
\* end-of-sequence id.
C8_Original ==
  (Ran /\ Len(file) \in LineBreaks(file)) =>
    LET lines == Pieces(file)
        n == Cardinality(LineBreaks(file))
    IN /\ Len(gen.sentences) = n
       /\ \A k \in 1..n :
            gen.sentences[k] = Ids(Split(lines[k])) \o <<EOS_INDEX>>

\* C8, amended: a corpus with n line breaks (and no marker written in it) gives
\* n+1 sentences. The first is the first line's token ids and the end-of-sequence
\* id; each later one starts with the pad marker of the line break before it,
\* glued to the line's first token unless the line starts with whitespace; the
\* last holds what follows the last line break and no end-of-sequence id. For
\* "a b\nc\n", sequence_length 2, batch_size 1: [a, b, <eos>], [<pad>c, <eos>],
\* [<pad>]; rows of width 3; batch 0 is row 0, columns [0,2) and [1,3).
C8_PipelineSentences ==
  Ran =>
    LET P == Pieces(file)
        n == Cardinality(LineBreaks(file))
        S == gen.sentences
    IN /\ Len(S) = n + 1
       /\ S[1] = Ids(Split(P[1])) \o <<EOS_INDEX>>
       /\ \A k \in 2..n : S[k] = Ids(Split(PAD_TOKEN \o P[k])) \o <<EOS_INDEX>>
       /\ S[n + 1] = Ids(Split(PAD_TOKEN \o P[n + 1]))
       /\ (file = TextGlued /\ gen.sequence_length = 2 /\ gen.batch_size = 1 =>
             /\ [k \in 1..Len(S) |-> TokensOfIds(S[k])]
                  = << <<<<97>>, <<98>>, EOS_TOKEN>>,
                       <<PAD_TOKEN \o <<99>>, EOS_TOKEN>>,
                       <<PAD_TOKEN>> >>
             /\ \A r \in 1..Len(gen.data) : Len(gen.data[r]) = 3
             /\ (~OverrideSet =>
                   /\ batches[1].x = <<Columns(gen.data[1], 1, 2)>>
                   /\ batches[1].y = <<Columns(gen.data[1], 2, 3)>>))

C8_Witness ==
  /\ Ran
  /\ file = TextGlued
  /\ gen.sequence_length = 2
  /\ gen.batch_size = 1
  /\ Len(batches) = 3

----------------------------------------------------------------------------
(* The marker ids over any sequence of calls, under Spec *)

\* C10: EOS_INDEX and PAD_INDEX change only in a build_vocab call that returns,
\* which sets them to the ids of "<eos>" and "<pad>" in the vocabulary it
\* returns; _file_to_word_ids, ptb_iterator and next() change neither them nor
\* the vocabulary, so they stay the ids of the vocabulary in force.
C10_MarkerFrame ==
  [][/\ (<<EOS_INDEX, PAD_INDEX>>' # <<EOS_INDEX, PAD_INDEX>> =>
           op' = "build_vocab" /\ err' = NoError)
     /\ ((op' = "build_vocab" /\ err' = NoError) =>
           /\ EOS_INDEX' = word_to_id'[EOS_TOKEN]
           /\ PAD_INDEX' = word_to_id'[PAD_TOKEN])
     /\ (op' \in {"_file_to_word_ids", "ptb_iterator", "next"} =>
           UNCHANGED <<EOS_INDEX, PAD_INDEX, word_to_id>>)
     /\ (word_to_id' # <<>> =>
           /\ EOS_INDEX' = word_to_id'[EOS_TOKEN]
           /\ PAD_INDEX' = word_to_id'[PAD_TOKEN])]_vars

\* batches of another file's ids, cut and padded with the ids build_vocab set
C10_Witness ==
  /\ op = "next"
  /\ file = TextPtb
  /\ EOS_INDEX = 1
  /\ PAD_INDEX = 2
  /\ Len(batches) >= 2
  /\ \E r \in 1..Len(gen.data) : gen.data[r][gen.sequence_length + 1] = 2

====
